---- MODULE Spec2Model ----
(***************************************************************************)
(* A model of broke (src/broke/__init__.py): an append-only log file of    *)
(* gzip-compressed, checksummed blocks, written by BrokeWriter.commit      *)
(* under an exclusive advisory lock and read by iter_blocks /              *)
(* read_messages / read_messages_follow under a shared lock.               *)
(*                                                                         *)
(* The file is a sequence of cells (natural numbers).  One cell stands for *)
(* one field of a struct or one byte of a payload: a block header is the   *)
(* five cells magic, length, checksum, committed, reserved.  Python's      *)
(* buffered file object is modelled write-through: every content of the    *)
(* file that the buffered writes can leave on disk is a content the model  *)
(* reaches.                                                                *)
(***************************************************************************)
EXTENDS Integers, Sequences, FiniteSets, TLC

(***************************************************************************)
(* Bounds of the model.                                                    *)
(***************************************************************************)
\* messages a writer stores into one buffer
MaxMsgs == 2
\* appends the writers begin in a run
MaxBlocks == 3
\* writes, flushes and truncates that raise, and processes that die, in a run
MaxFaults == 1
\* the clock stops here
MaxTime == 3
\* width of the topic field in cells (64 in the source, scaled down)
TopicSize == 2
\* lock timeout in clock ticks (timeout=5 s at retry_interval=0.25 s, scaled down)
Timeout == 1
\* scan cycles of the follow driver in a run
MaxCycles == 3

(***************************************************************************)
(* Header Codec                                                            *)
(***************************************************************************)
\* construct.Magic(b"BrokeHeader"), one cell
Magic == 65535
\* first cell of a gzip stream
GzipMagic == 31
\* offset of a deflated cell: compressed data is not the raw data
DeflateBase == 100
\* the NUL padding character of the topic field
Nul == 0

Min(a, b) == IF a < b THEN a ELSE b
Max(a, b) == IF a > b THEN a ELSE b

RECURSIVE SumSeq(_)
SumSeq(s) == IF s = <<>> THEN 0 ELSE Head(s) + SumSeq(Tail(s))

\* zlib.crc32 over the compressed bytes, 16 bits wide here
_checksum(bytes) == SumSeq(bytes) % 65536

BlockHeaderBuild(length, checksum, committed) ==
    <<Magic, length, checksum, IF committed THEN 1 ELSE 0, 0>>

BlockHeaderSize == Len(BlockHeaderBuild(0, 0, FALSE))

\* BlockHeader.parse: both Magic fields are validated, Flag is true for 1 only
BlockHeaderParse(b) ==
    IF Len(b) # BlockHeaderSize \/ b[1] # Magic \/ b[5] # 0
    THEN [ok |-> FALSE, length |-> 0, checksum |-> 0, committed |-> FALSE]
    ELSE [ok |-> TRUE, length |-> b[2], checksum |-> b[3], committed |-> (b[4] = 1)]

\* (mutant) padded with spaces
PadTopicSpace(t) == t \o [i \in 1..(TopicSize - Len(t)) |-> 32]

\* String("topic", 64, padchar="\x00"): padded on the right when built
PadTopic(t) == t \o [i \in 1..(TopicSize - Len(t)) |-> Nul]

\* ... and stripped of trailing padding characters when parsed
RECURSIVE TrimTopic(_)
TrimTopic(c) ==
    IF c # <<>> /\ c[Len(c)] = Nul THEN TrimTopic(SubSeq(c, 1, Len(c) - 1)) ELSE c

\* (mutant) every topic is built
TopicBuildsAny(t) == TRUE

\* the topic encodes as ascii and fits the field
TopicBuilds(t) == Len(t) <= TopicSize /\ \A i \in 1..Len(t) : t[i] < 128

MessageHeaderBuild(length, timestamp, topic) ==
    <<0, length, timestamp>> \o PadTopic(topic)

MessageHeaderSize == Len(MessageHeaderBuild(0, 0, <<>>))

MessageHeaderParse(b) ==
    IF Len(b) # MessageHeaderSize \/ b[1] # 0
    THEN [ok |-> FALSE, length |-> 0, timestamp |-> 0, topic |-> <<>>]
    ELSE [ok |-> TRUE, length |-> b[2], timestamp |-> b[3],
          topic |-> TrimTopic(SubSeq(b, 4, Len(b)))]

Message(topic, time, payload) == [topic |-> topic, time |-> time, payload |-> payload]

(***************************************************************************)
(* gzip                                                                    *)
(***************************************************************************)
Deflate(b) == b + DeflateBase
Inflate(c) == c - DeflateBase

\* GzipFile(mode="wb") closed: magic, deflated data, trailer with the size
GzipCompress(raw) ==
    <<GzipMagic>> \o [i \in 1..Len(raw) |-> Deflate(raw[i])] \o <<Len(raw)>>

\* GzipFile(fileobj=BytesIO(block)) read to the end
GzipDecompress(c) ==
    IF /\ Len(c) >= 2
       /\ c[1] = GzipMagic
       /\ c[Len(c)] = Len(c) - 2
       /\ \A i \in 2..(Len(c) - 1) : c[i] >= DeflateBase
    THEN [ok |-> TRUE, raw |-> [i \in 1..(Len(c) - 2) |-> Inflate(c[i + 1])]]
    ELSE [ok |-> FALSE, raw |-> <<>>]

(***************************************************************************)
(* Message Codec                                                           *)
(***************************************************************************)
\* fp.read(length) at offset pos (0-based) of a byte sequence
Read(f, pos, length) ==
    IF pos >= Len(f) THEN <<>> ELSE SubSeq(f, pos + 1, Min(pos + length, Len(f)))

\* the framed message of store(): MessageHeader.build(header) then payload
Frame(topic, timestamp, payload) ==
    MessageHeaderBuild(Len(payload), timestamp, topic) \o payload

\* iter_messages over a decompressed block: the messages, ok = FALSE when a
\* header does not parse or read_fully raises "short read"
RECURSIVE iter_messages(_)
iter_messages(raw) ==
    LET header_bytes == Read(raw, 0, MessageHeaderSize)
        header == MessageHeaderParse(header_bytes)
        payload == Read(raw, MessageHeaderSize, header.length)
        rest == iter_messages(SubSeq(raw, MessageHeaderSize + header.length + 1, Len(raw)))
    IN IF header_bytes = <<>> THEN [ok |-> TRUE, msgs |-> <<>>]
       ELSE IF ~header.ok \/ Len(payload) # header.length
            THEN [ok |-> FALSE, msgs |-> <<>>]
            ELSE [ok |-> rest.ok,
                  msgs |-> <<Message(header.topic, header.timestamp, payload)>> \o rest.msgs]

\* read_messages on one block: decompress, then iter_messages
DecodeBlock(block) ==
    LET z == GzipDecompress(block)
    IN IF z.ok THEN iter_messages(z.raw) ELSE [ok |-> FALSE, msgs |-> <<>>]

(***************************************************************************)
(* State                                                                   *)
(***************************************************************************)
Writers == {"w1", "w2"}
Reader == "r"
Procs == Writers \cup {Reader}

\* time.sleep(retry_interval) of lock(), in clock ticks
RetryInterval == 1
\* time.sleep(check_interval) of read_messages_follow, in clock ticks
CheckInterval == 1

VARIABLES
    file,       \* the log file: a sequence of cells
    lockOf,     \* the flock each process holds on the file: "none", "sh", "ex"
    now,        \* time.time(), in ticks
    pc,         \* where each process is
    buf,        \* BrokeWriter.buffer: the uncompressed bytes written so far
    compressed, \* commit(): the local `compressed`
    start,      \* commit(): the local `start`
    wpos,       \* commit(): the position of fp
    exc,        \* commit(): the exception being handled in `except:`
    err,        \* the error the last call of a process raised, "none" if none;
                \* "nothing_to_commit" marks a commit() that returned at line 95
    lstart,     \* lock(): the local `start`
    wake,       \* time.sleep(): when the sleep ends
    appends,    \* appends begun by the writers
    faults,     \* faults so far: calls that raised, processes that died
    rpos,       \* the reader's file position
    rhdr,       \* iter_blocks: the local `header`
    yielded,    \* the messages the reader has yielded
    cycles,     \* scan cycles the follow driver has ended
    cur,        \* history: the messages stored since the last commit/rollback
    blk,        \* history: the messages of the block a commit is appending
    snap,       \* history: the file when `start` was recorded
    log,        \* history: the blocks left committed in the file, in commit order
    ranges,     \* history: the byte range each append has written
    junk,       \* history: a crash or a failed truncate left an incomplete block
    dropped,    \* history: where complete blocks with committed=false were left
    touched,    \* history: a write changed a cell outside the writer's own block
    truncOk,    \* history: the truncate of the failed commit succeeded
    acq,        \* history: how often the exclusive lock has been acquired
    ticket      \* history: the how-manieth acquisition a commit in flight made

vars == <<file, lockOf, now, pc, buf, compressed, start, wpos, exc, err, lstart,
          wake, appends, faults, rpos, rhdr, yielded, cycles, cur, blk, snap,
          log, ranges, junk, dropped, touched, truncOk, acq, ticket>>

wvars == <<buf, compressed, start, wpos, exc, appends, faults, cur, blk, snap, truncOk,
           acq, ticket>>
rvars == <<rpos, rhdr, yielded, cycles>>
hvars == <<log, ranges, junk, dropped, touched>>

NoHeader == BlockHeaderParse(<<>>)

\* the file is f, the writers are fresh, the reader has opened the file;
\* `budget` of the MaxFaults faults have happened already
InitFile(f, budget) ==
    /\ file = f
    /\ lockOf = [p \in Procs |-> "none"]
    /\ now = 0
    /\ pc = [p \in Procs |-> IF p = Reader THEN "lock_try" ELSE "idle"]
    /\ buf = [w \in Writers |-> <<>>]
    /\ compressed = [w \in Writers |-> <<>>]
    /\ start = [w \in Writers |-> 0]
    /\ wpos = [w \in Writers |-> 0]
    /\ exc = [w \in Writers |-> "none"]
    /\ err = [p \in Procs |-> "none"]
    /\ lstart = [p \in Procs |-> 0]
    /\ wake = [p \in Procs |-> 0]
    /\ appends = 0
    /\ faults = budget
    /\ rpos = 0
    /\ rhdr = NoHeader
    /\ yielded = <<>>
    /\ cycles = 0
    /\ cur = [w \in Writers |-> <<>>]
    /\ blk = [w \in Writers |-> <<>>]
    /\ snap = [w \in Writers |-> <<>>]
    /\ log = <<>>
    /\ ranges = {}
    /\ junk = FALSE
    /\ dropped = {}
    /\ touched = FALSE
    /\ truncOk = [w \in Writers |-> FALSE]
    /\ acq = 0
    /\ ticket = [w \in Writers |-> 0]

\* the same on the empty file
InitWith(budget) == InitFile(<<>>, budget)

\* a run in which up to MaxFaults faults happen
Init == InitWith(0)

\* a run in which every write, flush and truncate succeeds and nobody dies
InitNoFaults == InitWith(MaxFaults)

(***************************************************************************)
(* Advisory Lock: lock(fp, shared, timeout, retry_interval)                *)
(***************************************************************************)
\* (mutant) every process takes the shared lock
LockTypeShared(p) == "sh"

\* lock_type: LOCK_EX in commit(), LOCK_SH in iter_blocks
LockType(p) == IF p \in Writers THEN "ex" ELSE "sh"

\* (mutant) a shared lock is granted whatever the others hold
CompatibleShared(p, type) ==
    type = "sh" \/ \A q \in Procs \ {p} : lockOf[q] = "none"

\* (mutant) every lock is granted
CompatibleAlways(p, type) == TRUE

\* (mutant) a lock conflicts with the locks of the reader only
CompatibleWriters(p, type) ==
    \A q \in Procs \ {p} : q \in Writers \/
        IF type = "sh" THEN lockOf[q] # "ex" ELSE lockOf[q] = "none"

\* flock: a shared lock conflicts with another process's exclusive lock, an
\* exclusive lock with any lock of another process
Compatible(p, type) ==
    \A q \in Procs \ {p} :
        IF type = "sh" THEN lockOf[q] # "ex" ELSE lockOf[q] = "none"

\* the first statement of the `with lock(...)` body
Locked(p) == IF p \in Writers THEN "seek" ELSE "read_header"

\* the timeout test of lock(), line 48
TimedOut(p) == now - lstart[p] > Timeout

\* portalocker.lock(fp, lock_type) returns: the flags carry no LOCK_NB, so
\* the call waits in flock() for as long as the lock conflicts
LockAcquire(p) ==
    /\ pc[p] = "lock_try"
    /\ Compatible(p, LockType(p))
    /\ lockOf' = [lockOf EXCEPT ![p] = LockType(p)]
    /\ pc' = [pc EXCEPT ![p] = Locked(p)]
    /\ acq' = IF p \in Writers THEN acq + 1 ELSE acq
    /\ ticket' = IF p \in Writers THEN [ticket EXCEPT ![p] = acq + 1] ELSE ticket
    /\ UNCHANGED <<file, now, err, lstart, wake, buf, compressed, start, wpos, exc,
                   appends, faults, cur, blk, snap, truncOk, rvars, hvars>>

\* portalocker.lock raises LockException (flock failed with an IOError):
\* TimeoutError once the timeout is over, else sleep and try again
LockFail(p) ==
    /\ pc[p] = "lock_try"
    /\ IF TimedOut(p)
       THEN /\ pc' = [pc EXCEPT ![p] = IF p \in Writers THEN "idle" ELSE "failed"]
            /\ err' = [err EXCEPT ![p] = "TimeoutError"]
            /\ wake' = wake
            /\ lstart' = [lstart EXCEPT ![p] = 0]
            /\ IF p \in Writers
               THEN /\ compressed' = [compressed EXCEPT ![p] = <<>>]
                    /\ blk' = [blk EXCEPT ![p] = <<>>]
               ELSE UNCHANGED <<compressed, blk>>
       ELSE /\ pc' = [pc EXCEPT ![p] = "lock_sleep"]
            /\ wake' = [wake EXCEPT ![p] = now + RetryInterval]
            /\ UNCHANGED <<err, lstart, compressed, blk>>
    /\ UNCHANGED <<file, lockOf, now, buf, start, wpos, exc, appends, acq, ticket, faults,
                   cur, snap, truncOk, rvars, hvars>>

\* time.sleep(retry_interval) returns
LockRetry(p) ==
    /\ pc[p] = "lock_sleep"
    /\ now >= wake[p]
    /\ pc' = [pc EXCEPT ![p] = "lock_try"]
    /\ wake' = [wake EXCEPT ![p] = 0]
    /\ UNCHANGED <<file, lockOf, now, err, lstart, wvars, rvars, hvars>>

\* the clock advances
Tick ==
    /\ now < MaxTime
    /\ now' = now + 1
    /\ UNCHANGED <<file, lockOf, pc, err, lstart, wake, wvars, rvars, hvars>>

(***************************************************************************)
(* Writer                                                                  *)
(***************************************************************************)
\* fp.write(bytes) at position pos: overwrites, and extends the file
WriteAt(f, pos, bytes) ==
    [i \in 1..Max(Len(f), pos + Len(bytes)) |->
        IF i > pos /\ i <= pos + Len(bytes) THEN bytes[i - pos]
        ELSE IF i <= Len(f) THEN f[i] ELSE 0]

\* (mutant) the truncate leaves the file as it is
TruncateKeep(f, size) == f

\* fp.truncate(size)
TruncateTo(f, size) ==
    IF size <= Len(f) THEN SubSeq(f, 1, size)
    ELSE f \o [i \in 1..(size - Len(f)) |-> 0]

\* (mutant) never dirty
dirtyNever(w) == FALSE

\* (mutant) tell() >= 0
dirtyAlways(w) == Len(buf[w]) >= 0

\* BrokeWriter.dirty: self.buffer.tell() > 0
dirty(w) == Len(buf[w]) > 0

\* store(topic, payload): MessageHeader.build raises before anything is
\* written to the buffer when the topic does not fit or is not ascii
store(w, topic, payload) ==
    /\ pc[w] = "idle"
    /\ Len(cur[w]) < MaxMsgs
    /\ IF TopicBuilds(topic)
       THEN /\ buf' = [buf EXCEPT ![w] = @ \o Frame(topic, now, payload)]
            /\ cur' = [cur EXCEPT ![w] = Append(@, Message(topic, now, payload))]
            /\ err' = [err EXCEPT ![w] = "none"]
       ELSE /\ err' = [err EXCEPT ![w] = "FieldError"]
            /\ UNCHANGED <<buf, cur>>
    /\ UNCHANGED <<file, lockOf, now, pc, compressed, start, wpos, exc, lstart,
                   wake, appends, acq, ticket, faults, blk, snap, truncOk, rvars, hvars>>

\* store() with a payload that is not bytes or a topic that is not str:
\* raises at line 76 or 79, before the buffer is touched
store_invalid(w) ==
    /\ pc[w] = "idle"
    /\ err' = [err EXCEPT ![w] = "IOError"]
    /\ UNCHANGED <<file, lockOf, now, pc, lstart, wake, wvars, rvars, hvars>>

\* (mutant) the buffer is kept
rollbackKeep(w) ==
    /\ pc[w] = "idle"
    /\ cur' = [cur EXCEPT ![w] = <<>>]
    /\ err' = [err EXCEPT ![w] = "none"]
    /\ UNCHANGED <<file, lockOf, now, pc, buf, compressed, start, wpos, exc, lstart,
                   wake, appends, acq, ticket, faults, blk, snap, truncOk, rvars, hvars>>

\* rollback(): a fresh buffer
rollback(w) ==
    /\ pc[w] = "idle"
    /\ buf' = [buf EXCEPT ![w] = <<>>]
    /\ cur' = [cur EXCEPT ![w] = <<>>]
    /\ err' = [err EXCEPT ![w] = "none"]
    /\ UNCHANGED <<file, lockOf, now, pc, compressed, start, wpos, exc, lstart,
                   wake, appends, acq, ticket, faults, blk, snap, truncOk, rvars, hvars>>

\* (mutant) commit() without the reset of the buffer
commitNoReset(w) ==
    /\ pc[w] = "idle"
    /\ IF ~dirty(w)
       THEN /\ err' = [err EXCEPT ![w] = "nothing_to_commit"]
            /\ UNCHANGED <<pc, buf, compressed, lstart, cur, blk, appends>>
       ELSE /\ appends < MaxBlocks
            /\ err' = [err EXCEPT ![w] = "none"]
            /\ appends' = appends + 1
            /\ compressed' = [compressed EXCEPT ![w] = GzipCompress(buf[w])]
            /\ buf' = buf
            /\ blk' = [blk EXCEPT ![w] = cur[w]]
            /\ cur' = [cur EXCEPT ![w] = <<>>]
            /\ lstart' = [lstart EXCEPT ![w] = now]
            /\ pc' = [pc EXCEPT ![w] = "lock_try"]
    /\ truncOk' = [truncOk EXCEPT ![w] = FALSE]
    /\ UNCHANGED <<file, lockOf, now, start, wpos, exc, wake, faults, snap,
                   acq, ticket, rvars, hvars>>

\* commit(), lines 94-107: return if not dirty; else close the gzip stream,
\* reset the buffer, and go on to open the file and take the lock
commit(w) ==
    /\ pc[w] = "idle"
    /\ IF ~dirty(w)
       THEN /\ err' = [err EXCEPT ![w] = "nothing_to_commit"]
            /\ UNCHANGED <<pc, buf, compressed, lstart, cur, blk, appends>>
       ELSE /\ appends < MaxBlocks
            /\ err' = [err EXCEPT ![w] = "none"]
            /\ appends' = appends + 1
            /\ compressed' = [compressed EXCEPT ![w] = GzipCompress(buf[w])]
            /\ buf' = [buf EXCEPT ![w] = <<>>]
            /\ blk' = [blk EXCEPT ![w] = cur[w]]
            /\ cur' = [cur EXCEPT ![w] = <<>>]
            /\ lstart' = [lstart EXCEPT ![w] = now]
            /\ pc' = [pc EXCEPT ![w] = "lock_try"]
    /\ truncOk' = [truncOk EXCEPT ![w] = FALSE]
    /\ UNCHANGED <<file, lockOf, now, start, wpos, exc, wake, faults, snap,
                   acq, ticket, rvars, hvars>>

\* __exit__(exc_type, ...) with an error of the scope: rollback(), and the
\* error goes on to the caller of the scope
exit_error(w) ==
    /\ pc[w] = "idle"
    /\ buf' = [buf EXCEPT ![w] = <<>>]
    /\ cur' = [cur EXCEPT ![w] = <<>>]
    /\ err' = [err EXCEPT ![w] = "ScopeError"]
    /\ UNCHANGED <<file, lockOf, now, pc, compressed, start, wpos, exc, lstart,
                   wake, appends, acq, ticket, faults, blk, snap, truncOk, rvars, hvars>>

\* __exit__(exc_type, exc_val, exc_tb): rollback() if the scope ends with an
\* error, commit() if not
__exit__(w, exc_type) == IF exc_type THEN exit_error(w) ELSE commit(w)

\* the places of commit() behind the reset of the buffer (line 100)
AfterReset == {"lock_try", "lock_sleep", "seek", "write_header", "write_payload",
               "rewrite_header", "flush", "except", "unwind"}

\* store(topic, payload) by another thread of the writer's process while
\* its commit() is behind the reset of the buffer
store_during_commit(w, topic, payload) ==
    /\ pc[w] \in AfterReset
    /\ Len(cur[w]) < MaxMsgs
    /\ TopicBuilds(topic)
    /\ buf' = [buf EXCEPT ![w] = @ \o Frame(topic, now, payload)]
    /\ cur' = [cur EXCEPT ![w] = Append(@, Message(topic, now, payload))]
    /\ UNCHANGED <<file, lockOf, now, pc, err, compressed, start, wpos, exc, lstart,
                   wake, appends, acq, ticket, faults, blk, snap, truncOk, rvars, hvars>>

\* the header of the block being appended
header_bytes(w, committed) ==
    BlockHeaderBuild(Len(compressed[w]), _checksum(compressed[w]), committed)

\* the byte range of the commit in flight grows to [lo, hi)
Mine(w) == {e \in ranges : e.w = w /\ e.open}

\* a write by w at pos reaches a cell that is not a cell of its own last block
Foreign(pos, k, inplace) == k > 0 /\ pos < Len(file) /\ ~inplace

Extend(w, lo, hi) ==
    LET l == IF Mine(w) = {} THEN lo ELSE Min(lo, (CHOOSE e \in Mine(w) : TRUE).lo)
        h == IF Mine(w) = {} THEN hi ELSE Max(hi, (CHOOSE e \in Mine(w) : TRUE).hi)
    IN IF lo = hi THEN ranges
       ELSE (ranges \ Mine(w)) \cup {[w |-> w, open |-> TRUE, lo |-> l, hi |-> h]}

\* the commit in flight ends: its byte range stays as history
Close(w, rs) ==
    {IF e.w = w /\ e.open THEN [e EXCEPT !.open = FALSE] ELSE e : e \in rs}

\* how far a write that raises gets: nowhere, half way, or to the end
Progress(bytes) == {0, Len(bytes) \div 2, Len(bytes)}

\* fp.write(bytes) with fp at position pos; k cells reach the file, and the
\* write raises unless all of them do
Write(w, pos, bytes, k, next, inplace) ==
    /\ k < Len(bytes) => faults < MaxFaults
    /\ faults' = IF k < Len(bytes) THEN faults + 1 ELSE faults
    /\ file' = WriteAt(file, pos, SubSeq(bytes, 1, k))
    /\ wpos' = [wpos EXCEPT ![w] = pos + k]
    /\ ranges' = Extend(w, pos, pos + k)
    /\ touched' = (touched \/ Foreign(pos, k, inplace))
    /\ IF k = Len(bytes)
       THEN pc' = [pc EXCEPT ![w] = next] /\ exc' = exc
       ELSE pc' = [pc EXCEPT ![w] = "except"] /\ exc' = [exc EXCEPT ![w] = "WriteError"]
    /\ UNCHANGED <<lockOf, now, err, lstart, wake, buf, compressed, start, appends, acq, ticket,
                   cur, blk, snap, truncOk, rvars, log, junk, dropped>>

\* (mutant) fp.seek(0); fp.tell()
EndOfFileZero(f) == 0

\* fp.seek(0, os.SEEK_END); fp.tell()
EndOfFile(f) == Len(f)

\* fp.seek(0, os.SEEK_END); start = fp.tell()
seek_end(w) ==
    /\ pc[w] = "seek"
    /\ start' = [start EXCEPT ![w] = EndOfFile(file)]
    /\ wpos' = [wpos EXCEPT ![w] = EndOfFile(file)]
    /\ snap' = [snap EXCEPT ![w] = file]
    /\ pc' = [pc EXCEPT ![w] = "write_header"]
    /\ UNCHANGED <<file, lockOf, now, err, lstart, wake, buf, compressed, exc,
                   appends, acq, ticket, faults, cur, blk, truncOk, rvars, hvars>>

\* fp.write(header_bytes), committed=False
write_header(w) ==
    /\ pc[w] = "write_header"
    /\ \E k \in Progress(header_bytes(w, FALSE)) :
          Write(w, wpos[w], header_bytes(w, FALSE), k, "write_payload", FALSE)

\* fp.write(compressed)
write_payload(w) ==
    /\ pc[w] = "write_payload"
    /\ \E k \in Progress(compressed[w]) :
          Write(w, wpos[w], compressed[w], k, "rewrite_header", FALSE)

\* the block at `start` is the writer's own block and the last of the file
OwnLastBlock(w) ==
    /\ start[w] + BlockHeaderSize + Len(compressed[w]) = Len(file)
    /\ Read(file, start[w], BlockHeaderSize) = header_bytes(w, FALSE)
    /\ Read(file, start[w] + BlockHeaderSize, Len(compressed[w])) = compressed[w]

\* fp.seek(start); header.committed = True; fp.write(BlockHeader.build(header))
rewrite_header(w) ==
    /\ pc[w] = "rewrite_header"
    /\ \E k \in Progress(header_bytes(w, TRUE)) :
          Write(w, start[w], header_bytes(w, TRUE), k, "flush", OwnLastBlock(w))

\* what the commit in flight leaves in the file from `start` on when it ends
\* here: "nothing", a "partial" block, or a complete block, "committed" or
\* "uncommitted"
Left(w, f) ==
    LET written == Len(f) - start[w]
        h == BlockHeaderParse(Read(f, start[w], BlockHeaderSize))
    IN IF pc[w] = "seek" \/ written <= 0 THEN "nothing"
       ELSE IF written < BlockHeaderSize + Len(compressed[w]) THEN "partial"
       ELSE IF h.ok /\ h.committed THEN "committed"
       ELSE "uncommitted"

\* the block of the commit in flight, as it is when committed
Entry(w) ==
    [w |-> w, start |-> start[w], msgs |-> blk[w],
     bytes |-> header_bytes(w, TRUE) \o compressed[w], ticket |-> ticket[w]]

\* the history of what a commit that ends here leaves behind
Leave(w, left) ==
    /\ log' = IF left = "committed" THEN Append(log, Entry(w)) ELSE log
    /\ dropped' = IF left = "uncommitted" THEN dropped \cup {start[w]} ELSE dropped
    /\ junk' = (junk \/ left = "partial")

\* the locals of commit() go out of scope
Return(w) ==
    /\ compressed' = [compressed EXCEPT ![w] = <<>>]
    /\ start' = [start EXCEPT ![w] = 0]
    /\ wpos' = [wpos EXCEPT ![w] = 0]
    /\ exc' = [exc EXCEPT ![w] = "none"]
    /\ blk' = [blk EXCEPT ![w] = <<>>]
    /\ snap' = [snap EXCEPT ![w] = <<>>]
    /\ lstart' = [lstart EXCEPT ![w] = 0]
    /\ ticket' = [ticket EXCEPT ![w] = 0]

\* fp.flush() returns and the `with` ends: unlock, close; commit() returns
flush(w) ==
    /\ pc[w] = "flush"
    /\ pc' = [pc EXCEPT ![w] = "idle"]
    /\ lockOf' = [lockOf EXCEPT ![w] = "none"]
    /\ err' = [err EXCEPT ![w] = "none"]
    /\ Leave(w, "committed")
    /\ Return(w)
    /\ ranges' = Close(w, ranges)
    /\ UNCHANGED <<file, now, wake, buf, appends, acq, faults, cur, truncOk, rvars,
                   touched>>

\* fp.flush() raises
flush_fails(w) ==
    /\ pc[w] = "flush"
    /\ faults < MaxFaults
    /\ faults' = faults + 1
    /\ pc' = [pc EXCEPT ![w] = "except"]
    /\ exc' = [exc EXCEPT ![w] = "FlushError"]
    /\ UNCHANGED <<file, lockOf, now, err, lstart, wake, buf, compressed, start,
                   wpos, appends, acq, ticket, cur, blk, snap, truncOk, rvars, hvars>>

\* except: fp.truncate(start), which may raise itself ("Could not truncate file")
truncate(w) ==
    /\ pc[w] = "except"
    /\ \E ok \in BOOLEAN :
          /\ file' = IF ok THEN TruncateTo(file, start[w]) ELSE file
          /\ truncOk' = [truncOk EXCEPT ![w] = ok]
          /\ ranges' = IF ok THEN ranges \ Mine(w) ELSE ranges
    /\ pc' = [pc EXCEPT ![w] = "unwind"]
    /\ UNCHANGED <<lockOf, now, err, lstart, wake, buf, compressed, start, wpos, exc,
                   appends, acq, ticket, faults, cur, blk, snap, rvars, log, junk, dropped,
                   touched>>

\* raise: the exception being handled leaves the `with` (unlock, close) and
\* commit()
unwind(w) ==
    /\ pc[w] = "unwind"
    /\ pc' = [pc EXCEPT ![w] = "idle"]
    /\ lockOf' = [lockOf EXCEPT ![w] = "none"]
    /\ err' = [err EXCEPT ![w] = exc[w]]
    /\ Leave(w, Left(w, file))
    /\ Return(w)
    /\ ranges' = Close(w, ranges)
    /\ truncOk' = [truncOk EXCEPT ![w] = FALSE]
    /\ UNCHANGED <<file, now, wake, buf, appends, acq, faults, cur, rvars, touched>>

\* the write a writer is about to make: the bytes and the position
Pending(w) ==
    IF pc[w] = "write_header" THEN [bytes |-> header_bytes(w, FALSE), pos |-> wpos[w]]
    ELSE IF pc[w] = "write_payload" THEN [bytes |-> compressed[w], pos |-> wpos[w]]
    ELSE IF pc[w] = "rewrite_header" THEN [bytes |-> header_bytes(w, TRUE), pos |-> start[w]]
    ELSE [bytes |-> <<>>, pos |-> 0]

InCommit == {"write_header", "write_payload", "rewrite_header", "flush", "except",
             "unwind"}

\* the writer process dies inside the `with`, k cells into the write it was
\* making: the kernel drops its lock
crash(w) ==
    /\ pc[w] \in InCommit
    /\ faults < MaxFaults
    /\ faults' = faults + 1
    /\ pc' = [pc EXCEPT ![w] = "dead"]
    /\ lockOf' = [lockOf EXCEPT ![w] = "none"]
    /\ \E k \in Progress(Pending(w).bytes) :
          LET f == WriteAt(file, Pending(w).pos, SubSeq(Pending(w).bytes, 1, k))
          IN /\ file' = f
             /\ Leave(w, Left(w, f))
             /\ ranges' = Close(w, Extend(w, Pending(w).pos, Pending(w).pos + k))
             /\ touched' = (touched \/ Foreign(Pending(w).pos, k, OwnLastBlock(w)))
    /\ Return(w)
    /\ truncOk' = [truncOk EXCEPT ![w] = FALSE]
    /\ UNCHANGED <<now, err, wake, buf, appends, acq, cur, rvars>>

(***************************************************************************)
(* Block Scanner and Follow Driver                                         *)
(***************************************************************************)
\* (mutant) a block that is not committed is read like a committed one
ScanHeaderNoSkip(f, pos) ==
    LET bytes == Read(f, pos, BlockHeaderSize)
        header == BlockHeaderParse(bytes)
        kind == IF bytes = <<>> THEN "eof"
                ELSE IF ~header.ok THEN "bad"
                ELSE IF header.length = 0 THEN "empty"
                ELSE "payload"
    IN [kind |-> kind, header |-> header, pos |-> pos + Len(bytes)]

\* (mutant) the header of an empty block is read again
ScanHeaderStuck(f, pos) ==
    LET bytes == Read(f, pos, BlockHeaderSize)
        header == BlockHeaderParse(bytes)
        kind == IF bytes = <<>> THEN "eof"
                ELSE IF ~header.ok THEN "bad"
                ELSE IF header.length = 0 THEN "empty"
                ELSE IF ~header.committed THEN "skip"
                ELSE "payload"
    IN [kind |-> kind, header |-> header,
        pos |-> IF kind = "empty" THEN pos
                ELSE pos + Len(bytes) + (IF kind = "skip" THEN header.length ELSE 0)]

\* iter_blocks, lines 149-163, with fp at pos: read and parse a header.
\*   "eof"     nothing read: break
\*   "bad"     BlockHeader.parse raises
\*   "empty"   length == 0: continue
\*   "skip"    not committed: seek over `length` bytes, continue
\*   "payload" go on to read the block
ScanHeader(f, pos) ==
    LET bytes == Read(f, pos, BlockHeaderSize)
        header == BlockHeaderParse(bytes)
        kind == IF bytes = <<>> THEN "eof"
                ELSE IF ~header.ok THEN "bad"
                ELSE IF header.length = 0 THEN "empty"
                ELSE IF ~header.committed THEN "skip"
                ELSE "payload"
    IN [kind |-> kind, header |-> header,
        pos |-> pos + Len(bytes) + (IF kind = "skip" THEN header.length ELSE 0)]

\* (mutant) the checksum is not compared
ScanPayloadNoCheck(f, pos, header) ==
    LET block_bytes == Read(f, pos, header.length)
        kind == IF Len(block_bytes) # header.length THEN "short" ELSE "block"
    IN [kind |-> kind, bytes |-> block_bytes, pos |-> pos + Len(block_bytes)]

\* iter_blocks, lines 166-168: read_fully and the checksum test.
\*   "short"    read_fully raises
\*   "checksum" the checksum is invalid
\*   "block"    the block is yielded
ScanPayload(f, pos, header) ==
    LET block_bytes == Read(f, pos, header.length)
        kind == IF Len(block_bytes) # header.length THEN "short"
                ELSE IF _checksum(block_bytes) # header.checksum THEN "checksum"
                ELSE "block"
    IN [kind |-> kind, bytes |-> block_bytes, pos |-> pos + Len(block_bytes)]

\* (mutant) the lock is kept when the `with` ends
EndWithKeep(next) ==
    /\ lockOf' = lockOf
    /\ pc' = [pc EXCEPT ![Reader] = next]
    /\ lstart' = [lstart EXCEPT ![Reader] = IF next = "lock_try" THEN now ELSE 0]
    /\ rhdr' = NoHeader

\* the `with lock(fp, shared=True)` of iter_blocks ends, one way or the other
EndWith(next) ==
    /\ lockOf' = [lockOf EXCEPT ![Reader] = "none"]
    /\ pc' = [pc EXCEPT ![Reader] = next]
    /\ lstart' = [lstart EXCEPT ![Reader] = IF next = "lock_try" THEN now ELSE 0]
    /\ rhdr' = NoHeader

\* the reader is in the lock and reads a header
read_header ==
    LET h == ScanHeader(file, rpos)
    IN /\ pc[Reader] = "read_header"
       /\ rpos' = h.pos
       /\ IF h.kind = "eof"
          THEN \* read_messages returns; the follow driver sleeps
               /\ EndWith("cycle_sleep")
               /\ wake' = [wake EXCEPT ![Reader] = now + CheckInterval]
               /\ cycles' = cycles + 1
               /\ UNCHANGED err
          ELSE IF h.kind = "bad"
          THEN /\ EndWith("failed")
               /\ err' = [err EXCEPT ![Reader] = "FormatError"]
               /\ UNCHANGED <<wake, cycles>>
          ELSE IF h.kind \in {"empty", "skip"}
          THEN /\ EndWith("lock_try")
               /\ UNCHANGED <<wake, cycles, err>>
          ELSE /\ pc' = [pc EXCEPT ![Reader] = "read_payload"]
               /\ rhdr' = h.header
               /\ UNCHANGED <<lockOf, lstart, wake, cycles, err>>
       /\ UNCHANGED <<file, now, yielded, wvars, hvars>>

\* the reader reads the block, leaves the lock, and read_messages yields the
\* messages of the block
read_payload ==
    LET b == ScanPayload(file, rpos, rhdr)
        decoded == DecodeBlock(b.bytes)
    IN /\ pc[Reader] = "read_payload"
       /\ rpos' = b.pos
       /\ IF b.kind = "short"
          THEN /\ EndWith("failed")
               /\ err' = [err EXCEPT ![Reader] = "ShortReadError"]
               /\ UNCHANGED yielded
          ELSE IF b.kind = "checksum"
          THEN /\ EndWith("failed")
               /\ err' = [err EXCEPT ![Reader] = "ChecksumError"]
               /\ UNCHANGED yielded
          ELSE /\ yielded' = yielded \o decoded.msgs
               /\ IF decoded.ok
                  THEN EndWith("lock_try") /\ UNCHANGED err
                  ELSE EndWith("failed") /\ err' = [err EXCEPT ![Reader] = "DecodeError"]
       /\ UNCHANGED <<file, now, wake, cycles, wvars, hvars>>

\* (mutant) the next cycle starts at the beginning of the file
followRewind ==
    /\ pc[Reader] = "cycle_sleep"
    /\ now >= wake[Reader]
    /\ cycles < MaxCycles
    /\ pc' = [pc EXCEPT ![Reader] = "lock_try"]
    /\ lstart' = [lstart EXCEPT ![Reader] = now]
    /\ wake' = [wake EXCEPT ![Reader] = 0]
    /\ rpos' = 0
    /\ UNCHANGED <<file, lockOf, now, err, wvars, rhdr, yielded, cycles, hvars>>

\* read_messages_follow: time.sleep(check_interval) returns, the next cycle
follow ==
    /\ pc[Reader] = "cycle_sleep"
    /\ now >= wake[Reader]
    /\ cycles < MaxCycles
    /\ pc' = [pc EXCEPT ![Reader] = "lock_try"]
    /\ lstart' = [lstart EXCEPT ![Reader] = now]
    /\ wake' = [wake EXCEPT ![Reader] = 0]
    /\ UNCHANGED <<file, lockOf, now, err, wvars, rvars, hvars>>

\* read_messages(fp) with fp at pos on a file nobody writes: the messages
\* yielded and how the scan ends ("eof" or the error)
RECURSIVE read_messages(_, _)
read_messages(f, pos) ==
    LET h == ScanHeader(f, pos)
        b == ScanPayload(f, h.pos, h.header)
        d == DecodeBlock(b.bytes)
        rest == read_messages(f, IF h.kind = "payload" THEN b.pos ELSE h.pos)
    IN IF h.kind \in {"eof", "bad"} THEN [msgs |-> <<>>, end |-> h.kind]
       ELSE IF h.kind \in {"empty", "skip"} THEN rest
       ELSE IF b.kind # "block" THEN [msgs |-> <<>>, end |-> b.kind]
       ELSE IF ~d.ok THEN [msgs |-> d.msgs, end |-> "decode"]
       ELSE [msgs |-> d.msgs \o rest.msgs, end |-> rest.end]

(***************************************************************************)
(* The system: two writer processes and a reader on one file               *)
(***************************************************************************)
\* what the writers store: a topic and a payload
Topics == {<<1>>}
Payloads(w) == IF w = "w1" THEN {<<1>>} ELSE {<<2>>}

\* the calls a program makes on its writer
Calls(w, topics, payloads) ==
    \/ \E t \in topics, p \in payloads : store(w, t, p)
    \/ rollback(w)
    \/ commit(w)

\* the steps of an append in which nothing fails
AppendSteps(w) ==
    \/ LockAcquire(w)
    \/ seek_end(w)
    \/ write_header(w)
    \/ write_payload(w)
    \/ rewrite_header(w)
    \/ flush(w)

\* the steps after a failure, and the death of the process
FaultSteps(w) ==
    \/ flush_fails(w)
    \/ truncate(w)
    \/ unwind(w)
    \/ crash(w)

\* the steps of one scan of the file
ScanSteps ==
    \/ LockAcquire(Reader)
    \/ read_header
    \/ read_payload

\* two writers and one scan of the file by the reader (read_messages), with
\* failing writes, flushes and truncates and dying writers
Next ==
    \/ \E w \in Writers : Calls(w, Topics, Payloads(w))
    \/ \E w \in Writers : AppendSteps(w)
    \/ \E w \in Writers : FaultSteps(w)
    \/ ScanSteps

Spec == Init /\ [][Next]_vars

\* what one writer stores when its calls are looked at one by one: topics that
\* are short, end in a NUL, are too long for the field, are not ascii
TooLong == [i \in 1..(TopicSize + 1) |-> 1]
SeqTopics == {<<1>>, <<2, Nul>>, TooLong, <<200>>}
SeqPayloads == {<<7>>}

\* one writer whose calls all run to their end, and one scan
NextSeq ==
    \/ Calls("w1", SeqTopics, SeqPayloads)
    \/ AppendSteps("w1")
    \/ ScanSteps

SpecSeq == InitNoFaults /\ [][NextSeq]_vars

\* one writer used as a scoped resource, with calls that are rejected and
\* appends that fail; nobody reads
FullTopic == [i \in 1..TopicSize |-> 1]
WriterTopics == {<<1>>, FullTopic, TooLong, <<200>>}

NextWriter ==
    \/ Calls("w1", WriterTopics, SeqPayloads)
    \/ store_invalid("w1")
    \/ \E exc_type \in BOOLEAN : __exit__("w1", exc_type)
    \/ AppendSteps("w1")
    \/ FaultSteps("w1")

SpecWriter == Init /\ [][NextWriter]_vars

\* one writer whose process stores while its commit is in flight, with the
\* clock, a flock() that can fail and appends that fail; nobody reads
NextThreads ==
    \/ Calls("w1", Topics, Payloads("w1"))
    \/ \E t \in Topics, p \in Payloads("w1") : store_during_commit("w1", t, p)
    \/ AppendSteps("w1")
    \/ FaultSteps("w1")
    \/ LockFail("w1")
    \/ LockRetry("w1")
    \/ Tick

SpecThreads == Init /\ [][NextThreads]_vars

\* a block as commit() builds it from the buffer contents raw
Block(raw, committed) ==
    BlockHeaderBuild(Len(GzipCompress(raw)), _checksum(GzipCompress(raw)), committed)
        \o GzipCompress(raw)

\* a header with length 0 and no payload
EmptyBlock(committed) == BlockHeaderBuild(0, _checksum(<<>>), committed)

\* the well-formed blocks a file to scan is made of: committed, not committed
\* with its whole payload, and of length 0
WellFormed ==
    {Block(Frame(<<1>>, 0, <<7>>), TRUE), Block(Frame(<<1>>, 0, <<7>>), FALSE),
     EmptyBlock(TRUE), EmptyBlock(FALSE)}

RECURSIVE Concat(_)
Concat(bs) == IF bs = <<>> THEN <<>> ELSE Head(bs) \o Concat(Tail(bs))

\* the files of up to MaxBlocks well-formed blocks
ScanFiles == {Concat(bs) : bs \in UNION {[1..n -> WellFormed] : n \in 0..MaxBlocks}}

\* the reader has opened one of these files
InitScan == \E f \in ScanFiles : InitFile(f, MaxFaults)

\* one scan of a file that nobody writes; the reader keeps taking steps
NextScan == ScanSteps

SpecScan == InitScan /\ [][NextScan]_vars /\ WF_vars(NextScan)

\* the clock advances while the follow driver sleeps
TickAsleep == pc[Reader] = "cycle_sleep" /\ Tick

\* one writer whose writes can fail, but who does not die, and the follow
\* driver; of the runs of the two, those in which the steps of a scan and of
\* an append take no time
NextFollowFaults ==
    \/ Calls("w1", Topics, Payloads("w1"))
    \/ AppendSteps("w1")
    \/ truncate("w1")
    \/ unwind("w1")
    \/ ScanSteps
    \/ follow
    \/ TickAsleep

SpecFollowFaults == Init /\ [][NextFollowFaults]_vars

\* the medium changes one byte of the payload of a block left committed
corrupt ==
    /\ faults < MaxFaults
    /\ \E i \in 1..Len(log) :
          \E at \in (log[i].start + BlockHeaderSize + 1)..(log[i].start + Len(log[i].bytes)) :
             /\ at <= Len(file)
             /\ file' = [file EXCEPT ![at] = (file[at] + 1) % 256]
    /\ faults' = faults + 1
    /\ UNCHANGED <<lockOf, now, pc, err, lstart, wake, buf, compressed, start,
                   wpos, exc, appends, acq, ticket, cur, blk, snap, truncOk, rvars, hvars>>

\* one writer, one scan, and one fault: a failed write, flush or truncate, a
\* dead writer, or a changed byte
NextCorrupt ==
    \/ Calls("w1", Topics, Payloads("w1"))
    \/ AppendSteps("w1")
    \/ FaultSteps("w1")
    \/ ScanSteps
    \/ corrupt

SpecCorrupt == Init /\ [][NextCorrupt]_vars

\* one writer and the follow driver (read_messages_follow), with the clock
NextFollow ==
    \/ Calls("w1", Topics, Payloads("w1"))
    \/ AppendSteps("w1")
    \/ ScanSteps
    \/ follow
    \/ Tick

SpecFollow == InitNoFaults /\ [][NextFollow]_vars

\* one writer and the reader with the clock and a flock() that can fail
NextLock ==
    \/ Calls("w1", Topics, Payloads("w1"))
    \/ AppendSteps("w1")
    \/ ScanSteps
    \/ \E p \in {"w1", Reader} : LockFail(p)
    \/ \E p \in {"w1", Reader} : LockRetry(p)
    \/ Tick

SpecLock == InitNoFaults /\ [][NextLock]_vars

(***************************************************************************)
(* Properties                                                              *)
(***************************************************************************)
\* the messages of a sequence of blocks, in order
RECURSIVE Flat(_)
Flat(blocks) == IF blocks = <<>> THEN <<>> ELSE Head(blocks).msgs \o Flat(Tail(blocks))

IsPrefix(a, b) == Len(a) <= Len(b) /\ SubSeq(b, 1, Len(a)) = a

\* y is the messages of some of the blocks, each block whole, in order
RECURSIVE WholeBlocks(_, _)
WholeBlocks(y, blocks) ==
    \/ y = <<>>
    \/ /\ blocks # <<>>
       /\ \/ /\ IsPrefix(Head(blocks).msgs, y)
             /\ WholeBlocks(SubSeq(y, Len(Head(blocks).msgs) + 1, Len(y)), Tail(blocks))
          \/ WholeBlocks(y, Tail(blocks))

\* no append is in flight: a scan can take the shared lock
Quiescent == \A w \in Writers : lockOf[w] = "none"

\* the reader has scanned the whole file as it is now
ScannedAll == pc[Reader] = "cycle_sleep" /\ rpos = Len(file)

\* C1: Crash atomicity.  When writers died after the uncommitted header and
\* the whole payload of their block were in the file (and nothing else went
\* wrong), every scan from offset 0 ends at the end of the file having
\* yielded exactly the messages of the committed blocks, those before and
\* those after the dead block, and none of the dead block; the reader
\* process, which scans while the writers run, has yielded a prefix of them
\* and all of them once it has reached the end of the file.
C1_CrashAtomicity ==
    (dropped # {} /\ ~junk) =>
        /\ IsPrefix(yielded, Flat(log))
        /\ ScannedAll /\ Quiescent => yielded = Flat(log)
        /\ Quiescent => read_messages(file, 0) = [msgs |-> Flat(log), end |-> "eof"]

\* a dead uncommitted block lies between two committed blocks and the reader
\* has scanned past all three
C1_Witness ==
    /\ \E d \in dropped : \E i, j \in 1..Len(log) : log[i].start < d /\ d < log[j].start
    /\ ~junk
    /\ ScannedAll
    /\ Len(yielded) >= 2

\* C2: Each commit is all-or-nothing for readers.  Whatever the writers and
\* the reader do, the messages the reader has yielded are the messages of
\* some of the blocks whose append has ended with the block committed, each
\* such block whole (all the messages stored since the previous commit or
\* rollback) and in file order: never a part of a block, never a message of
\* a block whose append is still in flight.
C2_AllOrNothing == WholeBlocks(yielded, log)

\* the reader has yielded a block of two messages while another append is in
\* flight
C2_Witness ==
    /\ \E i \in 1..Len(log) : Len(log[i].msgs) = 2 /\ IsPrefix(log[i].msgs, yielded)
    /\ \E w \in Writers : pc[w] = "rewrite_header"

\* the sizes of a set of byte ranges, added up
RECURSIVE Sizes(_)
Sizes(rs) ==
    IF rs = {} THEN 0
    ELSE LET e == CHOOSE e \in rs : TRUE IN (e.hi - e.lo) + Sizes(rs \ {e})

\* C3: Mutual exclusion of appends.  The byte ranges written by two appends
\* never overlap; every block left committed lies in a range of exactly its
\* header and payload size; and when no append is in flight the size of the
\* file (initially empty) is the sum of the sizes of the ranges written.
C3_MutualExclusion ==
    /\ \A a, b \in ranges : a # b => (a.hi <= b.lo \/ b.hi <= a.lo)
    /\ \A i \in 1..Len(log) : \E e \in ranges :
          e.lo = log[i].start /\ e.hi = log[i].start + Len(log[i].bytes)
    /\ Quiescent => Len(file) = Sizes(ranges)

\* both writers have committed a block and both commits have returned
C3_Witness ==
    /\ \A w \in Writers : pc[w] = "idle" /\ \E i \in 1..Len(log) : log[i].w = w
    /\ Cardinality(ranges) = 2
    /\ Len(file) = Sizes(ranges)

Raised == {"WriteError", "FlushError"}

\* C7: Write-failure recovery.  A failed write or flush of commit() leads to
\* the truncate; when the truncate has succeeded the file is what it was
\* when `start` was recorded; and the error commit() raises is the error of
\* the write or flush.
C7_Recovery ==
    /\ [](\A w \in Writers :
            /\ pc[w] \in {"except", "unwind"} => exc[w] \in Raised
            /\ pc[w] = "unwind" /\ truncOk[w] => file = snap[w])
    /\ [][\A w \in Writers :
            /\ pc[w] = "except" => pc'[w] \in {"except", "unwind", "dead"}
            /\ pc[w] = "unwind" /\ pc'[w] = "idle" => err'[w] = exc[w]]_vars

\* a flush failed after a block was appended to a file that was not empty, and
\* the truncate succeeded
C7_Witness ==
    \E w \in Writers :
        /\ pc[w] = "unwind" /\ truncOk[w] /\ exc[w] = "FlushError"
        /\ snap[w] # <<>> /\ file = snap[w]

\* C9: Append-only log.  The bytes of a block left committed are never
\* changed or removed afterwards, and the only write below the end of the
\* file is the rewrite of the header of the writer's own block, which is the
\* last block of the file then.
C9_AppendOnly ==
    /\ \A i \in 1..Len(log) : Read(file, log[i].start, Len(log[i].bytes)) = log[i].bytes
    /\ ~touched

\* two committed blocks are in the file and a failed append has been
\* truncated away after them
C9_Witness ==
    /\ Len(log) = 2
    /\ \E w \in Writers : pc[w] = "unwind" /\ truncOk[w] /\ start[w] > log[2].start

\* C10: Commit idempotence.  commit() on a writer that has stored nothing
\* since the last commit() or rollback() returns at once: the writer stays
\* where it is, takes no lock, compresses nothing, the file and the buffer are
\* unchanged and dirty is false; and whenever commit() returns, dirty is
\* false, so that a second commit() is such a call.
C10_Idempotence ==
    /\ [](\A w \in Writers : err[w] = "nothing_to_commit" => ~dirty(w) /\ pc[w] = "idle")
    /\ [][\A w \in Writers :
            /\ (pc[w] = "idle" /\ cur[w] = <<>>) =>
                  (pc'[w] = "idle" /\ lockOf'[w] = "none" /\ compressed'[w] = <<>>)
            /\ (err'[w] = "nothing_to_commit" /\ err[w] # "nothing_to_commit") =>
                  (file' = file /\ lockOf' = lockOf /\ buf' = buf /\ pc' = pc)
            /\ (pc[w] \in {"flush", "unwind", "lock_try"} /\ pc'[w] = "idle") =>
                  (~dirty(w) /\ buf'[w] = <<>>)]_vars

\* a second commit() right after a commit() that appended a block
C10_Witness ==
    \E w \in Writers :
        /\ err[w] = "nothing_to_commit"
        /\ \E i \in 1..Len(log) : log[i].w = w

\* the (topic, payload) pairs of a sequence of messages
Pairs(msgs) == [i \in 1..Len(msgs) |-> <<msgs[i].topic, msgs[i].payload>>]

\* the same with the padding characters at the end of each topic removed
TrimmedPairs(msgs) ==
    [i \in 1..Len(msgs) |-> <<TrimTopic(msgs[i].topic), msgs[i].payload>>]

C5_Follow ==
    /\ [](IsPrefix(yielded, Flat(log)))
    /\ [][/\ cycles' = cycles + 1 => yielded' = Flat(log')
          /\ IsPrefix(yielded, yielded')]_vars

\* the first cycle ended at time 0 on the empty file, the message was stored
\* at time 1, and the second cycle, which ended at time 1, has yielded it
C5_Witness ==
    /\ cycles = 2 /\ pc[Reader] = "cycle_sleep" /\ wake[Reader] = 1 + CheckInterval
    /\ yielded # <<>> /\ yielded = Flat(log)
    /\ yielded[1].time = 1

\* block i of the log is not in the file as it was committed
Corrupt(i) == Read(file, log[i].start, Len(log[i].bytes)) # log[i].bytes

\* C6: Checksum enforcement.  When the reader reads the payload of a
\* committed block that does not match the checksum of its header, the scan
\* fails with the checksum error and yields nothing of the block; a failed
\* scan takes no further step and yields nothing more; and what it has
\* yielded are the messages of the blocks before the changed block.  A scan
\* from offset 0 of a file whose first changed block is block i yields the
\* messages of the blocks before it and ends with the checksum error.
\* (Files in which a failed append has left a part of a block are set aside.)
C6_Checksum ==
    /\ [](~junk =>
          /\ err[Reader] = "ChecksumError" =>
               /\ pc[Reader] = "failed"
               /\ \E i \in 1..Len(log) :
                     Corrupt(i) /\ yielded = Flat(SubSeq(log, 1, i - 1))
          /\ pc["w1"] = "idle" =>
               \A i \in 1..Len(log) :
                  (Corrupt(i) /\ \A j \in 1..(i - 1) : ~Corrupt(j))
                     => read_messages(file, 0) =
                           [msgs |-> Flat(SubSeq(log, 1, i - 1)), end |-> "checksum"])
    /\ [][/\ (/\ ~junk
              /\ pc[Reader] = "read_payload" /\ pc'[Reader] # "read_payload"
              /\ \E i \in 1..Len(log) :
                    log[i].start + BlockHeaderSize = rpos /\ Corrupt(i))
             => /\ pc'[Reader] = "failed" /\ err'[Reader] = "ChecksumError"
                /\ yielded' = yielded
          /\ pc[Reader] = "failed" => pc'[Reader] = "failed" /\ yielded' = yielded]_vars

\* the second of three committed blocks was changed, and the scan has failed
\* at it after yielding the first
C6_Witness ==
    /\ err[Reader] = "ChecksumError" /\ pc[Reader] = "failed"
    /\ Len(log) = 3 /\ Corrupt(2) /\ ~junk
    /\ yielded = log[1].msgs

\* C8: Bounded lock acquisition.  A process that is taking the file lock
\* while the lock conflicts is no longer waiting for it once the timeout and
\* one more retry interval have gone by since the attempt began: by then it
\* has the lock or has failed with the timeout error.
C8_BoundedWait ==
    \A p \in Procs :
        pc[p] \in {"lock_try", "lock_sleep"} /\ ~Compatible(p, LockType(p))
            => now - lstart[p] <= Timeout + RetryInterval

\* messages as a scan yields them: the padding at the end of each topic removed
Trimmed(msgs) == [i \in 1..Len(msgs) |-> [msgs[i] EXCEPT !.topic = TrimTopic(@)]]

\* the messages the scanner decodes from block i of the log, as it is in the file
BlockMsgs(i) ==
    DecodeBlock(Read(file, log[i].start + BlockHeaderSize,
                     Len(log[i].bytes) - BlockHeaderSize)).msgs

\* C11: Rollback has no file effect.  rollback(), called directly or by a
\* scope exit with an error, leaves the file as it is and the buffer empty;
\* every block left committed in the file holds exactly the messages stored
\* since the last commit or rollback before its commit, so nothing stored
\* before a rollback is in a later block; and a scope exit without an error
\* on a dirty writer starts the append of commit().
C11_Rollback ==
    /\ [](\A i \in 1..Len(log) : BlockMsgs(i) = Trimmed(log[i].msgs))
    /\ [][/\ (rollback("w1") \/ __exit__("w1", TRUE))
                => file' = file /\ buf'["w1"] = <<>> /\ cur'["w1"] = <<>>
          /\ (__exit__("w1", FALSE) /\ dirty("w1"))
                => /\ pc'["w1"] = "lock_try" /\ blk'["w1"] = cur["w1"]
                   /\ compressed'["w1"] = GzipCompress(buf["w1"])]_vars

\* a scope has ended with an error after an earlier scope had committed a
\* block: the file is that block and the buffer is empty
C11_Witness ==
    /\ err["w1"] = "ScopeError" /\ pc["w1"] = "idle"
    /\ Len(log) = 1 /\ file = log[1].bytes
    /\ ~dirty("w1")

\* C12: dirty invariant.  In every state of a writer, after any store,
\* commit, rollback or scope exit, those that raise included, dirty is true
\* if and only if a store has succeeded since the most recent commit or
\* rollback; a fresh writer is not dirty.
C12_Dirty == \A w \in Writers : dirty(w) <=> cur[w] # <<>>

\* a store was rejected after a store had succeeded, with an earlier commit
\* that had failed: the writer is dirty
C12_Witness ==
    /\ err["w1"] = "FieldError" /\ dirty("w1")
    /\ Len(cur["w1"]) = 1
    /\ faults = 1 /\ log = <<>>

\* the store of w was rejected: it raised and left the buffer as it was
Rejected(w) == err'[w] \notin {"none", "nothing_to_commit"} /\ buf' = buf /\ cur' = cur

BlockEnd(i) == log[i].start + Len(log[i].bytes)

\* C14: Commit order.  A block whose commit acquired the exclusive lock
\* earlier lies wholly below a block whose commit acquired it later, and
\* below the place where a later commit in flight appends; the blocks of one
\* writer lie in the order of its commit() calls; and a scan of the file
\* yields the blocks in the order of the acquisitions.
C14_CommitOrder ==
    /\ \A i, j \in 1..Len(log) :
          log[i].ticket < log[j].ticket => BlockEnd(i) <= log[j].start
    /\ \A i, j \in 1..Len(log) :
          (i < j /\ log[i].w = log[j].w) => BlockEnd(i) <= log[j].start
    /\ \A w \in Writers : \A i \in 1..Len(log) :
          (pc[w] \in InCommit /\ log[i].ticket < ticket[w]) => BlockEnd(i) <= start[w]
    /\ \A i \in 1..(Len(log) - 1) : log[i].ticket < log[i + 1].ticket

\* three blocks are in the file, of w1, of w2 and of w1 again, in the order in
\* which their commits acquired the lock
C14_Witness ==
    /\ Len(log) = 3
    /\ log[1].w = "w1" /\ log[2].w = "w2" /\ log[3].w = "w1"
    /\ log[1].ticket < log[2].ticket /\ log[2].ticket < log[3].ticket
    /\ BlockEnd(1) = log[2].start /\ BlockEnd(2) = log[3].start /\ BlockEnd(3) = Len(file)

\* C15: Per-block reader lock window.  The reader holds the shared lock
\* exactly while it is reading a header or the payload that goes with it;
\* a window holds one header read and at most one payload read, and ends
\* with the payload read; so the reader holds no lock when a block has been
\* yielded and when the scan has ended, whether at the end of the file or
\* with an error.
C15_LockWindow ==
    /\ [](/\ lockOf[Reader] = "sh" <=> pc[Reader] \in {"read_header", "read_payload"}
          /\ lockOf[Reader] # "ex")
    /\ [][/\ pc[Reader] = "read_header" /\ rpos' # rpos
                => pc'[Reader] = "read_payload" \/ lockOf'[Reader] = "none"
          /\ pc[Reader] = "read_payload" /\ rpos' # rpos
                => lockOf'[Reader] = "none"
          /\ yielded' # yielded => lockOf'[Reader] = "none"]_vars

\* the reader has yielded the first block and waits for the lock, while a
\* writer that took the exclusive lock after that read has written a third
\* block, behind the block the reader reads next
C15_Witness ==
    /\ pc[Reader] = "lock_try" /\ lockOf[Reader] = "none"
    /\ Len(log) = 2 /\ yielded = log[1].msgs /\ rpos = BlockEnd(1)
    /\ \E w \in Writers : lockOf[w] = "ex" /\ pc[w] = "flush" /\ start[w] = BlockEnd(2)

\* the byte ranges left by writers that died after they had written the
\* header of their block with committed=false
DeadBlocks ==
    {e \in ranges :
        /\ pc[e.w] = "dead" /\ ~e.open
        /\ \A d \in ranges : d.w = e.w => d.lo <= e.lo
        /\ LET h == BlockHeaderParse(Read(file, e.lo, BlockHeaderSize))
           IN h.ok /\ ~h.committed}

\* C16: Skipping a non-committed block.  When all that went wrong is that
\* writers died after the uncommitted header of their block was in the file,
\* with all, a part or nothing of the payload behind it, the reader raises no
\* error and has yielded a prefix of the messages of the committed blocks,
\* and with no append in flight a scan from offset 0 yields the messages of
\* all committed blocks, those appended after the dead block included, and
\* ends at the end of the file.
C16_SkipUncommitted ==
    (DeadBlocks # {} /\ faults = Cardinality(DeadBlocks)) =>
        /\ err[Reader] = "none"
        /\ IsPrefix(yielded, Flat(log))
        /\ Quiescent => read_messages(file, 0) = [msgs |-> Flat(log), end |-> "eof"]

\* commit() of w ends with this step
CommitEnds(w) == pc[w] \in AfterReset /\ pc'[w] = "idle"

C18_Termination ==
    /\ [](/\ rpos <= Len(file)
          /\ pc[Reader] = "cycle_sleep" => rpos = Len(file)
          /\ pc[Reader] # "failed")
    /\ [][/\ rpos' >= rpos
          /\ (pc[Reader] = "read_header" /\ pc'[Reader] # "read_header")
               => \/ pc'[Reader] = "cycle_sleep" /\ rpos = Len(file) /\ rpos' = rpos
                  \/ pc'[Reader] # "cycle_sleep" /\ rpos < Len(file) /\ rpos' > rpos]_vars
    /\ <>(pc[Reader] = "cycle_sleep")

\* the scan has ended on a file of an empty block, a block that is not
\* committed and a committed block, of which it has yielded the message
C18_Witness ==
    /\ file = EmptyBlock(TRUE) \o Block(Frame(<<1>>, 0, <<7>>), FALSE)
                 \o Block(Frame(<<1>>, 0, <<7>>), TRUE)
    /\ pc[Reader] = "cycle_sleep" /\ rpos = Len(file)
    /\ yielded = <<Message(<<1>>, 0, <<7>>)>>

\* the ends of the byte ranges the appends have left in the file
Boundaries == {0} \cup {e.hi : e \in {r \in ranges : ~r.open}}

\* C19: Follower prefix invariant.  With writers that commit, fail and roll
\* back but do not die, what the follower has yielded is a prefix of the
\* messages of the committed blocks in file order, and between two cycles
\* its position is in the file and on a block boundary.
C19_FollowerPrefix ==
    /\ IsPrefix(yielded, Flat(log))
    /\ pc[Reader] = "cycle_sleep" => rpos <= Len(file) /\ rpos \in Boundaries

\* C20: Truncate stays inside the exclusive lock.  From the failure to the
\* end of commit() the writer holds the exclusive lock; the truncate leaves
\* the file below `start` as it is; and from `start` on there is nothing
\* but what this commit has written: every byte range of another append
\* and every block left committed, so every block the reader has yielded,
\* ends at or below `start`, and so does what the reader has read.
C20_TruncateInLock ==
    /\ [](\A w \in Writers : pc[w] \in {"except", "unwind"} => lockOf[w] = "ex")
    /\ [][\A w \in Writers : truncate(w) =>
            /\ lockOf[w] = "ex" /\ lockOf'[w] = "ex"
            /\ Len(file') >= start[w]
            /\ SubSeq(file', 1, start[w]) = SubSeq(file, 1, start[w])
            /\ \A e \in ranges : (e.w # w \/ ~e.open) => e.hi <= start[w]
            /\ \A i \in 1..Len(log) : BlockEnd(i) <= start[w]
            /\ WholeBlocks(yielded, log)
            /\ ~junk => rpos <= start[w]]_vars

\* the truncate of a failed commit has cut the file back to `start`, behind a
\* block of the other writer that the reader has yielded
C20_Witness ==
    \E w \in Writers :
        /\ pc[w] = "unwind" /\ truncOk[w] /\ lockOf[w] = "ex"
        /\ Len(file) = start[w] /\ file = snap[w]
        /\ Len(log) = 1 /\ log[1].w # w /\ BlockEnd(1) = start[w]
        /\ yielded = log[1].msgs

====
